---- MODULE Spec2Model ----
(***************************************************************************)
(* Live telemetry buffer of the asset-detail view (AssetView.jsx): the     *)
(* sliding window `historyData`, the carried walk state `prevValuesRef`,    *)
(* the streaming effect (seed fetch + 5 s tick interval) and the reset      *)
(* effect.                                                                  *)
(*                                                                          *)
(* Metric values are integers in units of 1/Scale (1e-5), so the carried    *)
(* (unrounded) values and the rounded sample values are distinct.           *)
(* Math.random() is a draw in thousandths (0..999); Math.sin is a table in  *)
(* thousandths.  Time is counted in tick periods; the clock advances by     *)
(* one period at each tick.                                                 *)
(***************************************************************************)
EXTENDS Integers, Sequences, FiniteSets, TLC

VARIABLES
    mounted,      \* the AssetView instance is mounted
    robotId,      \* robot?.id of the current render (NoRobot = undefined)
    timeRange,    \* useState('1h')
    historyData,  \* useState([]): the window
    prevValues,   \* prevValuesRef.current: CarryState
    run,          \* number of the current run of the streaming effect
    isMounted,    \* per effect run: the closure flag isMounted
    interval,     \* per effect run: its setInterval timer is active
    tickCount,    \* per effect run: the closure counter tickCount
    pc,           \* per effect run: position of initializeAndStream
    runSubject,   \* per effect run: robot.id captured by the closure
    runRange,     \* per effect run: timeRange captured by the closure
    clock,        \* Date.now(), in tick periods
    uncaught,     \* an exception or rejection escaped a handler
    seedMark,     \* history: how the current run's seed fetch settled
    memo,         \* the fallback held by the combinedData memo (<< >> when there is none)
    sensors,      \* robot?.sensors || {}: << >> when it has no API values
    appMounted,   \* AppContent: the closure flag isMounted of the data-fetch effect
    robotsData,   \* AppContent: useState([])
    isDataLoading, \* AppContent: useState(true)
    polls,        \* AppContent: per call of fetchData, its position
    fleetBy,      \* history: the call of fetchData that set robotsData (0 = none)
    streamStatus, \* Dashboard: useState('offline')
    requests      \* Dashboard: per call of controlStream, its state and position

viewVars == << mounted, robotId, timeRange, historyData, prevValues, run, isMounted,
               interval, tickCount, pc, runSubject, runRange, clock, uncaught, seedMark,
               memo, sensors >>

shellVars == << appMounted, robotsData, isDataLoading, polls, fleetBy, streamStatus,
                requests >>

vars == << viewVars, shellVars >>

-----------------------------------------------------------------------------
(* Bounds of the model *)

MaxRuns == 3          \* runs of the streaming effect explored by Spec
MaxClock == 2         \* ticks explored by Spec
LongRuns == 2         \* runs of the streaming effect explored by SpecLong
LongClock == 104      \* ticks explored by SpecLong
SynthClock == 150     \* ticks explored by SpecSynth
LiveClock == 102      \* ticks SpecLive explores at least
MaxPolls == 3         \* calls of fetchData explored by SpecApp
MaxRequests == 3      \* calls of controlStream explored by SpecDash

-----------------------------------------------------------------------------
(* Units and program constants *)

Scale == 10^5

MAX_DATA_POINTS == 100

SEED_TAKE == 50

\* the fallback: 20 samples, 3 minutes (36 tick periods of 5 s) apart
FALLBACK_LEN == 20
FALLBACK_STEP == 36

NoRobot == "undefined"
Robots == {"H29424", "H29425"}
Ranges == {"1h", "24h", "7d"}

\* An optional JSON field is <<>> when absent and <<v>> when it holds v.
Missing == << >>
Some(v) == << v >>

\* NaN as a timestamp: a value no time of the model takes
NaN == -1

Max(a, b) == IF a >= b THEN a ELSE b
Min(a, b) == IF a <= b THEN a ELSE b
Abs(a) == IF a < 0 THEN -a ELSE a

Defaults ==
    [ Torque |-> 40 * Scale,
      Temperature |-> 300 * Scale,
      Speed |-> 2800 * Scale,
      Vibration |-> Scale \div 2,
      current_tool_wear_pct |-> 35 * Scale ]

\* x.toFixed(d) for x >= 0, where unit = Scale / 10^d
ToFixed(x, unit) == ((x + unit \div 2) \div unit) * unit

\* a || b on a numeric-or-absent field: absent, null, NaN and 0 are falsy
OrDefault(f, dflt) == IF f = Missing \/ f[1] = 0 THEN dflt ELSE f[1]

\* new Date(t).getTime(): an unparsable or absent time gives NaN
ParseTime(f) == IF f = Missing THEN NaN ELSE f[1]

\* s.slice(-n)
SliceLast(s, n) == SubSeq(s, Max(1, Len(s) - n + 1), Len(s))

\* the metric values of a sample, as prevValuesRef holds them
CarryOf(p) ==
    [ Torque |-> p.Torque,
      Temperature |-> p.Temperature,
      Speed |-> p.Speed,
      Vibration |-> p.Vibration,
      current_tool_wear_pct |-> p.current_tool_wear_pct ]

SinOscTable ==
   <<
      296, 565, 783, 932, 997, 974, 863, 675, 427, 141, -158, -443, -688, -872, -978, -996,
      -926, -773, -551, -279, 17, 312, 578, 794, 938, 999, 970, 855, 663, 412, 124, -174,
      -458, -700, -880, -981, -995, -919, -762, -537, -263, 34, 327, 592, 804, 944, 999, 966,
      846, 650, 397, 108, -191, -472, -712, -888, -984, -993, -913, -751, -522, -247, 50, 343,
      606, 814, 949, 1000, 961, 837, 637, 381, 91, -207, -487, -723, -895, -987, -990, -906,
      -740, -508, -231, 67, 359, 619, 823, 954, 1000, 956, 827, 624, 366, 74, -224, -502,
      -735, -903, -989, -988, -898, -728, -493, -214, 84, 375, 632, 833, 959, 1000, 951, 818,
      611, 350, 57, -240, -516, -746, -910, -992, -985, -891, -717, -479, -198, 101, 390, 645,
      842, 964, 1000, 946, 808, 598, 334, 41, -256, -531, -757, -917, -994, -982, -883, -705,
      -464, -181, 117, 406, 658, 851, 968, 999, 940, 798, 584, 318, 24, -273, -545, -768,
      -923, -996, -979, -875, -693, -449, -165, 134, 421, 670, 860, 972, 998, 935, 788, 570,
      302, 7, -289, -559, -779, -929, -997, -975, -867, -681, -434, -148, 151, 436, 683, 868,
      976, 997, 928, 777, 557, 286, -10, -305, -573, -789, -936, -998, -972, -858, -668, -419,
      -131, 167, 451, 695, 876, 980, 995, 922, 767, 543, 270, -27, -321, -586, -800, -941,
      -999, -967, -850, -656, -403, -115, 184, 466, 707, 884, 983, 993, 915, 756, 528, 254,
      -43, -337, -600, -810, -947, -1000, -963, -841, -643, -388, -98, 200, 481, 719, 892, 986,
      991, 909, 745, 514, 238, -60, -352, -613, -819, -952, -1000, -958, -831, -630, -372, -81,
      217, 496, 730, 899, 988, 989, 901, 733, 499, 221, -77, -368, -626, -829, -957, -1000,
      -953, -822, -617, -357, -65, 233, 510, 742, 907, 991, 986, 894, 722, 485, 205, -94,
      -384, -639, -838, -962, -1000, -948, -812, -603, -341, -48, 250, 525, 753, 914, 993, 984,
      886, 710, 470, 188, -110, -399, -652, -847, -966, -999, -943, -802, -590, -325, -31, 266,
      539, 764, 920, 995, 980, 878, 698, 455, 172, -127, -415, -665, -856, -971, -998, -937,
      -792, -576, -309, -14, 282, 553, 774, 927, 996, 977, 870, 686, 440, 155, -144, -430,
      -677, -865, -974, -997, -931, -782, -562, -293, 3, 298, 567, 785, 933, 998, 973, 862,
      673, 425, 138, -160, -445, -690, -873, -978, -996, -925, -771, -548, -277, 19, 314, 581,
      795, 939, 999, 969, 853, 661, 410, 122, -177, -460, -702, -881, -981, -994, -918, -760,
      -534, -261, 36, 330, 594, 805, 945, 999, 965, 844, 648, 394, 105, -193, -475, -714,
      -889, -985, -992, -911, -749, -520, -244, 53, 346, 608, 815, 950, 1000, 960, 835, 635,
      379, 88, -210, -489, -725, -896, -987, -990, -904, -738, -506, -228, 70, 362, 621, 825,
      955, 1000, 956, 826, 622, 363, 72, -226, -504, -737, -904, -990, -988, -897, -727, -491,
      -212, 87, 377, 634, 834, 960, 1000, 951, 816, 609, 347, 55, -243, -519, -748, -911,
      -992, -985, -890, -715, -476, -195, 103, 393, 647, 843, 965, 999, 945, 806, 596, 332,
      38, -259, -533, -759, -918, -994, -982, -882
   >>

SinTremorTable ==
   <<
      644, 985, 863, 335, -351, -872, -982, -631, 17, 657, 988, 855, 319, -366, -880, -979,
      -618, 34, 670, 991, 846, 303, -382, -888, -976, -605, 50, 682, 993, 837, 287, -398,
      -895, -972, -591, 67, 694, 995, 827, 271, -413, -903, -968, -578, 84, 706, 996, 818,
      255, -428, -910, -963, -564, 101, 718, 998, 808, 238, -443, -917, -959, -550, 117, 730,
      999, 798, 222, -458, -923, -954, -536, 134, 741, 999, 788, 206, -473, -929, -949, -522,
      151, 752, 1000, 777, 189, -488, -936, -943, -507, 167, 763, 1000, 767, 173, -503, -941,
      -937, -493, 184, 774, 1000, 756, 156, -517, -947, -931, -478, 200, 784, 1000, 745, 139,
      -531, -952, -925, -463, 217, 795, 999, 733, 123, -546, -957, -919, -448, 233, 805, 998,
      722, 106, -560, -962, -912, -433, 250, 815, 997, 710, 89, -573, -966, -905, -418, 266,
      824, 995, 698, 72, -587, -971, -898, -402, 282, 834, 993, 686, 56, -601, -974, -890,
      -387, 298, 843, 991, 673, 39, -614, -978, -882, -371, 314, 852, 989, 661, 22, -627,
      -981, -874, -356, 330, 861, 986, 648, 5, -640, -985, -866, -340, 346, 869, 983, 635,
      -12, -653, -987, -857, -324, 362, 877, 980, 622, -28, -666, -990, -849, -308, 377, 885,
      977, 609, -45, -678, -992, -840, -292, 393, 893, 973, 596, -62, -690, -994, -830, -276,
      408, 900, 969, 582, -79, -702, -996, -821, -260, 423, 907, 965, 568, -95, -714, -997,
      -811, -244, 439, 914, 960, 554, -112, -726, -998, -801, -227, 454, 921, 955, 540, -129,
      -737, -999, -791, -211, 469, 927, 950, 526, -146, -749, -1000, -781, -194, 483, 934, 945,
      512, -162, -760, -1000, -770, -178, 498, 940, 939, 497, -179, -771, -1000, -759, -161, 512,
      945, 933, 483, -195, -781, -1000, -748, -145, 527, 951, 927, 468, -212, -792, -999, -737,
      -128, 541, 956, 921, 453, -228, -802, -998, -725, -111, 555, 960, 914, 438, -244, -812,
      -997, -714, -95, 569, 965, 907, 423, -261, -821, -996, -702, -78, 583, 969, 900, 407,
      -277, -831, -994, -690, -61, 596, 973, 892, 392, -293, -840, -992, -677, -44, 610, 977,
      885, 376, -309, -849, -990, -665, -27, 623, 980, 877, 361, -325, -858, -987, -652, -11,
      636, 984, 869, 345, -341, -866, -984, -639, 6, 649, 986, 860, 329, -357, -875, -981,
      -626, 23, 662, 989, 851, 313, -372, -883, -978, -613, 40, 674, 991, 842, 297, -388,
      -890, -974, -600, 57, 686, 993, 833, 281, -403, -898, -970, -586, 73, 699, 995, 824,
      265, -419, -905, -966, -573, 90, 711, 997, 814, 249, -434, -912, -962, -559, 107, 722,
      998, 804, 232, -449, -919, -957, -545, 124, 734, 999, 794, 216, -464, -925, -952, -531,
      140, 745, 1000, 784, 200, -479, -932, -947, -516, 157, 756, 1000, 773, 183, -493, -938,
      -941, -502, 173, 767, 1000, 763, 166, -508, -943, -935, -487, 190, 778, 1000, 752, 150,
      -522, -949, -929, -472, 206, 788, 999, 740, 133, -537, -954, -923, -458, 223, 799, 999,
      729, 117, -551, -959, -916, -442, 239, 809, 997, 717, 100, -565, -964, -909, -427, 256,
      818, 996, 706, 83, -578, -968, -902, -412
   >>

SinOsc(k) == SinOscTable[k]        \* Math.sin(k * 0.3), in thousandths
SinTremor(k) == SinTremorTable[k]  \* Math.sin(k * 0.7), in thousandths

-----------------------------------------------------------------------------
(* Inputs: Math.random() draws and history responses *)

\* One draw per Math.random() call of generateNewDataPoint, in thousandths.
RandDraws ==
    { [ torque |-> 0,   temp |-> 0,   speed |-> 0,   vib |-> 0,   wear |-> 0 ],
      [ torque |-> 999, temp |-> 999, speed |-> 999, vib |-> 999, wear |-> 999 ] }

LongDraws ==
    { [ torque |-> 999, temp |-> 0, speed |-> 500, vib |-> 999, wear |-> 500 ] }

HRec(time, tq, tp, sp, vb, wear) ==
    [ kind |-> "object", time |-> time, Torque |-> tq, Temperature |-> tp,
      Speed |-> sp, Vibration |-> vb, tool_wear_pct |-> wear ]

NullRec == [ kind |-> "null" ]

\* {time: T0, Torque: 42}
RecA == HRec(Some(10), Some(42 * Scale), Missing, Missing, Missing, Missing)
\* a complete record with every metric inside its range
RecB == HRec(Some(20), Some(30 * Scale), Some(310 * Scale), Some(2700 * Scale),
             Some(3 * (Scale \div 10)), Some(50 * Scale))
\* an earlier record with metrics outside their ranges and a zero field
RecC == HRec(Some(15), Some(100 * Scale), Some(0), Some(5000 * Scale),
             Some(2 * Scale), Some(99 * Scale))
\* a record whose time does not parse
RecD == HRec(Missing, Some(0), Some(295 * Scale), Missing, Missing, Some(40 * Scale))

\* How the seed request ends: fetch() rejects, the response is not OK,
\* res.json() rejects, or res.json() yields a non-array or an array of records.
\* Nothing shared is read or written between the two awaits, so the request
\* settles in one step.
Reject == [ kind |-> "reject" ]
NotOk == [ kind |-> "notok" ]
BadJson == [ kind |-> "badjson" ]
NonArray == [ kind |-> "nonarray" ]
ArrayOf(recs) == [ kind |-> "array", items |-> recs ]

Failures == { Reject, NotOk, BadJson, NonArray }

HistoryResponses ==
    Failures
    \cup { ArrayOf(s) : s \in { << >>, << RecA >>, << RecD >>, << RecB, RecC >>,
                                << RecC, RecB >>, << RecB, NullRec >> } }

\* A history of n complete in-range records at times 1..n, wear rising with time
LongHistory(n) ==
    [ i \in 1..n |->
        HRec(Some(i), Some((30 + (i % 20)) * Scale), Some(300 * Scale),
             Some(2800 * Scale), Some(Scale \div 2), Some(20 * Scale + i * 1000)) ]

LongResponses ==
    { Reject, ArrayOf(<< >>), ArrayOf(<< RecA >>), ArrayOf(LongHistory(SEED_TAKE + 1)) }

-----------------------------------------------------------------------------
(* generateNewDataPoint *)

Clamp(lo, hi, x) == Max(lo, Min(hi, x))

\* mutant: the wear increment has no base of 0.2
NextCarrySlowWear(prev, k, d) ==
    LET oscillation == SinOsc(k) * 50
        tremor == SinTremor(k) * 30
        wearIncrement == d.wear * 40 + (Abs(oscillation) * 3) \div 10
    IN  [ Torque |->
            Clamp(25 * Scale, 55 * Scale,
                  prev.Torque + (d.torque - 500) * 600 + oscillation * 3),
          Temperature |->
            Clamp(290 * Scale, 315 * Scale,
                  prev.Temperature + (d.temp - 500) * 300 + tremor * 2),
          Speed |->
            Clamp(2650 * Scale, 2950 * Scale,
                  prev.Speed + (d.speed - 500) * 8000 + oscillation * 30),
          Vibration |->
            Clamp(Scale \div 4, 85 * (Scale \div 100),
                  prev.Vibration + (d.vib - 500) * 15 + tremor \div 20),
          current_tool_wear_pct |->
            Min(95 * Scale, Max(5 * Scale, prev.current_tool_wear_pct + wearIncrement)) ]

\* prevValuesRef.current after generateNewDataPoint with tickCount = k, draws d
NextCarry(prev, k, d) ==
    LET oscillation == SinOsc(k) * 50         \* sin * 0.5
        tremor == SinTremor(k) * 30           \* sin * 0.3
        wearIncrement == 20000 + d.wear * 40 + (Abs(oscillation) * 3) \div 10
    IN  [ Torque |->
            Clamp(25 * Scale, 55 * Scale,
                  prev.Torque + (d.torque - 500) * 600 + oscillation * 3),
          Temperature |->
            Clamp(290 * Scale, 315 * Scale,
                  prev.Temperature + (d.temp - 500) * 300 + tremor * 2),
          Speed |->
            Clamp(2650 * Scale, 2950 * Scale,
                  prev.Speed + (d.speed - 500) * 8000 + oscillation * 30),
          Vibration |->
            Clamp(Scale \div 4, 85 * (Scale \div 100),
                  prev.Vibration + (d.vib - 500) * 15 + tremor \div 20),
          current_tool_wear_pct |->
            Min(95 * Scale, Max(5 * Scale, prev.current_tool_wear_pct + wearIncrement)) ]

\* the sample generateNewDataPoint returns for the carried values c at time now;
\* run and src record which effect run made the sample and how (history only)
PointOf(c, now, g) ==
    [ timestamp |-> now,
      Torque |-> ToFixed(c.Torque, Scale \div 10),
      Temperature |-> ToFixed(c.Temperature, Scale \div 10),
      Speed |-> ToFixed(c.Speed, Scale),
      Vibration |-> ToFixed(c.Vibration, Scale \div 100),
      current_tool_wear_pct |-> ToFixed(c.current_tool_wear_pct, Scale \div 10),
      run |-> g, src |-> "tick" ]

-----------------------------------------------------------------------------
(* initializeAndStream: normalisation of the history response *)

\* the map callback of data.slice(-50).map(...)
Normalize(d, g) ==
    [ timestamp |-> ParseTime(d.time),
      Torque |-> OrDefault(d.Torque, Defaults.Torque),
      Temperature |-> OrDefault(d.Temperature, Defaults.Temperature),
      Speed |-> OrDefault(d.Speed, Defaults.Speed),
      Vibration |-> OrDefault(d.Vibration, Defaults.Vibration),
      current_tool_wear_pct |-> OrDefault(d.tool_wear_pct, Defaults.current_tool_wear_pct),
      run |-> g, src |-> "seed" ]

\* mutant: the whole response is taken
SeedSliceAll(items) == items

\* mutant: the first records of the response are taken
SeedSliceFirst(items) == SubSeq(items, 1, Min(Len(items), SEED_TAKE))

SeedSlice(items) == SliceLast(items, SEED_TAKE)

\* d.time on a null element throws a TypeError inside the try block
MapThrows(items) == \E i \in 1..Len(SeedSlice(items)) : SeedSlice(items)[i].kind = "null"

InitialData(items, g) ==
    LET taken == SeedSlice(items)
    IN  [ i \in 1..Len(taken) |-> Normalize(taken[i], g) ]

-----------------------------------------------------------------------------
(* combinedData and liveSensors *)

\* Math.sin(i / 3), Math.sin(i / 4), Math.cos(i / 5) for i = 0..19, in thousandths
SinThirdTable == << 0, 327, 618, 841, 972, 995, 909, 723, 457, 141, -191, -501, -757, -929, -999, -959, -813, -578, -279, 50 >>
SinQuarterTable == << 0, 247, 479, 682, 841, 949, 997, 984, 909, 778, 598, 382, 141, -108, -351, -572, -757, -895, -978, -999 >>
CosFifthTable == << 1000, 980, 921, 825, 697, 540, 362, 170, -29, -227, -416, -589, -737, -857, -942, -990, -998, -967, -897, -791 >>

\* One draw per Math.random() call of the fallback generator, in thousandths
\* (the same draws for each of its samples).
FallbackDraws ==
    { [ torque |-> 0,   temp |-> 0,   speed |-> 0,   vib |-> 0,   wear |-> 0 ],
      [ torque |-> 999, temp |-> 999, speed |-> 999, vib |-> 999, wear |-> 999 ] }

\* element i (0..19) of Array.from({ length: 20 }, ...) generated at time now
FallbackPoint(i, now, d) ==
    [ timestamp |-> now - (FALLBACK_LEN - i) * FALLBACK_STEP,
      Torque |-> 40 * Scale + SinThirdTable[i + 1] * 500 + (d.torque - 500) * 200,
      Temperature |-> 300 * Scale + SinQuarterTable[i + 1] * 300 + (d.temp - 500) * 100,
      Speed |-> 2800 * Scale + CosFifthTable[i + 1] * 10000 + (d.speed - 500) * 2000,
      Vibration |-> 4 * (Scale \div 10) + d.vib * 30,
      current_tool_wear_pct |-> 30 * Scale + i * (Scale \div 2) + (d.wear * 400 - 2 * Scale),
      run |-> 0, src |-> "fallback" ]

FallbackData(now, d) == [ k \in 1..FALLBACK_LEN |-> FallbackPoint(k - 1, now, d) ]

\* mutant: never fall back
FallbackNever(h) == FALSE

\* if (!historyData.length)
FallbackNeeded(h) == Len(h) = 0

\* the memo after a render in which historyData is a new array h
MemoFor(h, now, d) ==
    IF FallbackNeeded(h) THEN << [ now |-> now, d |-> d ] >> ELSE << >>

\* mutant: a short window is shown after the fallback samples
CombinedOfPads(h, m) ==
    IF Len(h) < FALLBACK_LEN
    THEN FallbackData(clock, [ torque |-> 0, temp |-> 0, speed |-> 0, vib |-> 0, wear |-> 0 ]) \o h
    ELSE h

\* combinedData for window h and memo m
CombinedOf(h, m) ==
    IF FallbackNeeded(h)
    THEN (IF m = << >> THEN << >> ELSE FallbackData(m[1].now, m[1].d))
    ELSE h

\* mutant: the render stores the fallback it built in the window
RenderWindowStoresFallback(h) ==
    IF Len(h) = 0
    THEN [ k \in 1..20 |->
             [ timestamp |-> clock - (21 - k) * 36, Torque |-> 40 * Scale,
               Temperature |-> 300 * Scale, Speed |-> 2800 * Scale,
               Vibration |-> 4 * (Scale \div 10), current_tool_wear_pct |-> 30 * Scale,
               run |-> 0, src |-> "fallback" ] ]
    ELSE h

\* the window as a render leaves it: combinedData builds a new array
RenderWindow(h) == h

\* sensor snapshots of the robots prop
NoSensors == << >>
ApiSensors == << [ Torque |-> 38 * Scale, Temperature |-> 305 * Scale,
                   Speed |-> 2750 * Scale ] >>

\* liveSensors for sensors s and window h
LiveSensorsOf(s, h) ==
    IF s # NoSensors /\ (s[1].Torque # 0 \/ s[1].Temperature # 0 \/ s[1].Speed # 0)
    THEN [ Torque |-> s[1].Torque, Temperature |-> s[1].Temperature, Speed |-> s[1].Speed ]
    ELSE IF Len(h) > 0
    THEN [ Torque |-> h[Len(h)].Torque, Temperature |-> h[Len(h)].Temperature,
           Speed |-> h[Len(h)].Speed ]
    ELSE [ Torque |-> Defaults.Torque, Temperature |-> Defaults.Temperature,
           Speed |-> Defaults.Speed ]

-----------------------------------------------------------------------------
(* State after the first render and its effects *)

\* Date.now() at mount: the records of the long history and the timestamps of
\* the fallback lie in the past
ClockStart == FALLBACK_LEN * FALLBACK_STEP + SEED_TAKE + 1

NoMark == [ kind |-> "none", n |-> 0, ticks |-> 0, len |-> 0, items |-> << >> ]
PendingMark == [ kind |-> "pending", n |-> 0, ticks |-> 0, len |-> 0, items |-> << >> ]

\* mutant: the request is issued without a robot
StartPcAlways(id) == "fetch"

\* initializeAndStream up to its first await: returns at once without a robot
StartPc(id) == IF id = NoRobot THEN "returned" ELSE "fetch"

Init ==
    /\ mounted = TRUE
    /\ robotId \in {NoRobot, "H29424"}
    /\ timeRange = "1h"
    /\ historyData = << >>
    /\ prevValues = Defaults
    /\ run = 1
    /\ isMounted = << TRUE >>
    /\ interval = << TRUE >>
    /\ tickCount = << 0 >>
    /\ pc = << StartPc(robotId) >>
    /\ runSubject = << robotId >>
    /\ runRange = << timeRange >>
    /\ clock = ClockStart
    /\ uncaught = FALSE
    /\ seedMark = IF robotId = NoRobot THEN NoMark ELSE PendingMark
    /\ \E fd \in FallbackDraws : memo = MemoFor(historyData, clock, fd)
    /\ sensors = NoSensors
    /\ appMounted = TRUE
    /\ robotsData = << >>
    /\ isDataLoading = TRUE
    /\ polls = << "pending" >>
    /\ fleetBy = 0
    /\ streamStatus = "offline"
    /\ requests = << >>

-----------------------------------------------------------------------------
(* The streaming effect, dependencies [robot?.id, timeRange] *)

\* mutant: the cleanup does not clear the timer
StreamingEffectKeepsTimer(id, range) ==
    /\ run' = run + 1
    /\ isMounted' = Append([isMounted EXCEPT ![run] = FALSE], TRUE)
    /\ interval' = Append(interval, TRUE)
    /\ tickCount' = Append(tickCount, 0)
    /\ pc' = Append(pc, StartPc(id))
    /\ runSubject' = Append(runSubject, id)
    /\ runRange' = Append(runRange, range)
    /\ seedMark' = IF id = NoRobot THEN NoMark ELSE PendingMark

\* cleanup of the previous run, then the effect body for the new render
StreamingEffect(id, range) ==
    /\ run' = run + 1
    /\ isMounted' = Append([isMounted EXCEPT ![run] = FALSE], TRUE)
    /\ interval' = Append([interval EXCEPT ![run] = FALSE], TRUE)
    /\ tickCount' = Append(tickCount, 0)
    /\ pc' = Append(pc, StartPc(id))
    /\ runSubject' = Append(runSubject, id)
    /\ runRange' = Append(runRange, range)
    /\ seedMark' = IF id = NoRobot THEN NoMark ELSE PendingMark

\* mutant: the reset effect leaves the window
ResetWindowKeeps == historyData

\* the reset effect, dependencies [timeRange]
ResetWindow == << >>
ResetCarry == Defaults

\* the window and CarryState when only robot?.id changed: no effect touches them
SubjectWindow == historyData
SubjectCarry == prevValues

\* robot?.id changes (route parameter, or the fleet data arrives or drops the robot)
ChangeSubject(id, cap) ==
    /\ mounted
    /\ run < cap
    /\ id # robotId
    /\ robotId' = id
    /\ StreamingEffect(id, timeRange)
    /\ historyData' = RenderWindow(SubjectWindow)
    /\ prevValues' = SubjectCarry
    /\ sensors' = IF id = NoRobot THEN NoSensors ELSE sensors
    /\ UNCHANGED << mounted, timeRange, clock, uncaught, memo >>
    /\ UNCHANGED shellVars

\* a range button is clicked (the buttons exist only while the robot is found)
ChangeRange(r, fd, cap) ==
    /\ mounted
    /\ run < cap
    /\ robotId # NoRobot
    /\ r # timeRange
    /\ timeRange' = r
    /\ StreamingEffect(robotId, r)
    /\ historyData' = RenderWindow(ResetWindow)
    /\ prevValues' = ResetCarry
    /\ memo' = MemoFor(historyData', clock, fd)
    /\ UNCHANGED << mounted, robotId, clock, uncaught, sensors >>
    /\ UNCHANGED shellVars

\* the parent renders the view again with a new sensor snapshot of the same robot
PropsUpdate(s) ==
    /\ mounted
    /\ robotId # NoRobot
    /\ s # sensors
    /\ sensors' = s
    /\ historyData' = RenderWindow(historyData)
    /\ UNCHANGED << mounted, robotId, timeRange, prevValues, run, isMounted, interval,
                    tickCount, pc, runSubject, runRange, clock, uncaught, seedMark, memo >>
    /\ UNCHANGED shellVars

\* the view is left: cleanup of the current run
Unmount ==
    /\ mounted
    /\ mounted' = FALSE
    /\ isMounted' = [isMounted EXCEPT ![run] = FALSE]
    /\ interval' = [interval EXCEPT ![run] = FALSE]
    /\ UNCHANGED << robotId, timeRange, historyData, prevValues, run, tickCount, pc,
                    runSubject, runRange, clock, uncaught, seedMark, memo, sensors >>
    /\ UNCHANGED shellVars

-----------------------------------------------------------------------------
(* The tick interval callback *)

\* mutant: the window is not cut back
TickUpdaterNoSlice(prevData, newPoint) == Append(prevData, newPoint)

\* mutant: the window is cut one sample too late
TickUpdaterCapAbove(prevData, newPoint) ==
    SliceLast(Append(prevData, newPoint), MAX_DATA_POINTS + 1)

\* mutant: a full window keeps its oldest samples
TickUpdaterKeepsOldest(prevData, newPoint) ==
    IF Len(prevData) < MAX_DATA_POINTS THEN Append(prevData, newPoint) ELSE prevData

\* the setHistoryData updater
TickUpdater(prevData, newPoint) ==
    SliceLast(Append(prevData, newPoint), MAX_DATA_POINTS)

\* if (!isMounted) return;
TickRuns(g) == isMounted[g]

Tick(g, d) ==
    /\ interval[g]
    /\ clock' = clock + 1
    /\ IF TickRuns(g)
       THEN /\ tickCount' = [tickCount EXCEPT ![g] = @ + 1]
            /\ prevValues' = NextCarry(prevValues, tickCount'[g], d)
            /\ historyData' = TickUpdater(historyData, PointOf(prevValues', clock', g))
            /\ memo' = << >>
       ELSE UNCHANGED << tickCount, prevValues, historyData, memo >>
    /\ UNCHANGED << mounted, robotId, timeRange, run, isMounted, interval, pc,
                    runSubject, runRange, uncaught, seedMark, sensors >>
    /\ UNCHANGED shellVars

-----------------------------------------------------------------------------
(* initializeAndStream after its awaits *)

\* the try block spans both awaits and the normalisation
TryCatches == TRUE

\* mutant: the liveness flag is not consulted
SeedGuardIgnoresMounted(res, g) ==
    /\ res.kind = "array"
    /\ Len(res.items) > 0

\* mutant: an empty array is accepted
SeedGuardAcceptsEmpty(res, g) ==
    /\ res.kind = "array"
    /\ isMounted[g]

\* res.ok && Array.isArray(data) && data.length > 0 && isMounted
SeedGuard(res, g) ==
    /\ res.kind = "array"
    /\ Len(res.items) > 0
    /\ isMounted[g]

\* what throws or rejects inside initializeAndStream
Throws(res, g) ==
    \/ res.kind \in {"reject", "badjson"}
    \/ SeedGuard(res, g) /\ MapThrows(res.items)

\* mutant: prevValuesRef is set from the first seeded sample
SeedCarryFirst(initialData, prev) ==
    IF Len(initialData) > 0 THEN CarryOf(initialData[1]) ELSE prev

\* mutant: the seed leaves prevValuesRef alone
SeedCarryKeeps(initialData, prev) == prev

\* if (lastPoint) prevValuesRef.current = {...lastPoint's metrics}
SeedCarry(initialData, prev) ==
    IF Len(initialData) > 0 THEN CarryOf(initialData[Len(initialData)]) ELSE prev

\* history: what the response was, whatever the code then did with it
ResponseClass(res) ==
    IF res.kind # "array" THEN "failure"
    ELSE IF Len(res.items) = 0 THEN "empty"
    ELSE IF MapThrows(res.items) THEN "badrecords"
    ELSE "records"

\* the seed request of run g settles with res; a result that settles after the
\* run was superseded or the view was left is marked "stale" (history only)
SeedSettles(g, res) ==
    /\ pc[g] = "fetch"
    /\ pc' = [pc EXCEPT ![g] = IF g = run /\ mounted THEN "done" ELSE "stale"]
    /\ uncaught' = (uncaught \/ (Throws(res, g) /\ ~TryCatches))
    /\ IF SeedGuard(res, g) /\ ~MapThrows(res.items)
       THEN LET initialData == InitialData(res.items, g)
            IN  /\ prevValues' = SeedCarry(initialData, prevValues)
                /\ historyData' = initialData
                /\ memo' = << >>
       ELSE UNCHANGED << prevValues, historyData, memo >>
    /\ seedMark' = IF g = run /\ mounted
                   THEN [ kind |-> ResponseClass(res),
                          n |-> IF ResponseClass(res) = "records"
                                THEN Min(Len(res.items), SEED_TAKE) ELSE 0,
                          ticks |-> tickCount[run],
                          len |-> Len(historyData'),
                          items |-> IF res.kind = "array" THEN res.items ELSE << >> ]
                   ELSE seedMark
    /\ UNCHANGED << mounted, robotId, timeRange, run, isMounted, interval, tickCount,
                    runSubject, runRange, clock, sensors >>
    /\ UNCHANGED shellVars

-----------------------------------------------------------------------------
(* App.jsx: the fleet poll of AppContent *)

MACHINE_IDS ==
    << "H29424", "H29425", "H29432", "H29434", "H29441", "H29452", "H29457", "H29462" >>

Machines == 1..Len(MACHINE_IDS)

\* what one prediction request of a poll ends with: fetch() rejects, the
\* status is not OK, res.json() rejects, or res.json() yields null or an object
PredReject == [ kind |-> "reject" ]
PredNotOk == [ kind |-> "notok" ]
PredBadJson == [ kind |-> "badjson" ]
PredNull == [ kind |-> "null" ]
Pred(mid, status, fp) ==
    [ kind |-> "object", machine_id |-> mid, status |-> status, failure_probability |-> fp ]

PredFailures == { "reject", "notok", "badjson" }

\* the object the inner catch returns for machine id
PredFallback(id) == Pred(Some(id), Some("unknown"), Some(0))

\* the value the promise of machine i resolves to
PredResult(o, i) == IF o.kind \in PredFailures THEN PredFallback(MACHINE_IDS[i]) ELSE o

\* const safeR = r || {}
SafeR(r) == IF r.kind = "null" THEN Pred(Missing, Missing, Missing) ELSE r

\* (safeR.status || "").toString().toLowerCase()
LowerCase(s) ==
    CASE s = "At Risk" -> "at risk"
      [] s = "WARNING" -> "warning"
      [] OTHER -> s

SafeStatus(r) == IF r.status = Missing THEN "" ELSE LowerCase(r.status[1])

\* safeStatus.includes(w) on the status words of the model
Includes(s, w) ==
    CASE w = "risk" -> s \in {"at risk"}
      [] w = "warn" -> s \in {"warning"}
      [] OTHER -> FALSE

\* safeR.failure_probability || 0, in thousandths
ProbOf(r) == IF r.failure_probability = Missing THEN 0 ELSE r.failure_probability[1]

StatusOf(r) ==
    IF Includes(SafeStatus(r), "risk") \/ ProbOf(r) > 500 THEN "critical"
    ELSE IF Includes(SafeStatus(r), "warn") THEN "warning"
    ELSE IF SafeStatus(r) = "unknown" THEN "unknown"
    ELSE "healthy"

\* Math.round(failure_probability * 100)
RiskOf(r) == IF ProbOf(r) # 0 THEN (ProbOf(r) + 5) \div 10 ELSE 0

\* safeR.machine_id || MACHINE_IDS[i]
EntryId(r, i) == IF r.machine_id = Missing THEN MACHINE_IDS[i] ELSE r.machine_id[1]

\* the map callback of results.map(...); from and poll record which outcome
\* and which poll the entry came from (history only)
FormatEntry(o, i, k) ==
    LET safeR == SafeR(PredResult(o, i))
    IN  [ id |-> EntryId(safeR, i),
          status |-> StatusOf(safeR),
          risk |-> RiskOf(safeR),
          from |-> o.kind,
          poll |-> k ]

FormattedData(os, k) == [ i \in Machines |-> FormatEntry(os[i], i, k) ]

\* Outcomes of the eight requests of one poll: all healthy, or one machine's
\* request replaced by another outcome
Healthy == Pred(Missing, Some("healthy"), Some(120))

OtherOutcomes ==
    { PredReject, PredNotOk, PredBadJson, PredNull,
      Pred(Some("H29425"), Some("At Risk"), Some(900)),
      Pred(Missing, Some("WARNING"), Missing),
      Pred(Missing, Some("healthy"), Some(504)) }

AllOutcomes(o) == [ i \in Machines |-> o ]

PollOutcomes ==
    { AllOutcomes(Healthy), AllOutcomes(PredReject) }
    \cup { [ AllOutcomes(Healthy) EXCEPT ![i] = o ] : i \in {1, 2}, o \in OtherOutcomes }

\* fetchData is called: by the effect body (in Init) and by setInterval(fetchData, 30000)
PollStart ==
    /\ appMounted
    /\ Len(polls) < MaxPolls
    /\ polls' = Append(polls, "pending")
    /\ UNCHANGED << appMounted, robotsData, isDataLoading, fleetBy, streamStatus, requests >>
    /\ UNCHANGED viewVars

\* Promise.all of poll k resolves with outcomes os; the rest of fetchData runs
\* without a further await
PollSettles(k, os) ==
    /\ polls[k] = "pending"
    /\ IF appMounted
       THEN /\ robotsData' = FormattedData(os, k)
            /\ isDataLoading' = FALSE
            /\ fleetBy' = k
            /\ polls' = [polls EXCEPT ![k] = "committed"]
       ELSE /\ polls' = [polls EXCEPT ![k] = "dropped"]
            /\ UNCHANGED << robotsData, isDataLoading, fleetBy >>
    /\ UNCHANGED << appMounted, streamStatus, requests >>
    /\ UNCHANGED viewVars

\* cleanup of the data-fetch effect
AppUnmount ==
    /\ appMounted
    /\ appMounted' = FALSE
    /\ UNCHANGED << robotsData, isDataLoading, polls, fleetBy, streamStatus, requests >>
    /\ UNCHANGED viewVars

-----------------------------------------------------------------------------
(* Dashboard.jsx: stream control *)

\* the button of state s is disabled
Disabled(s) == IF s = "start" THEN streamStatus = "live" ELSE streamStatus = "offline"

\* onClick={() => controlStream(s)} up to the await
ControlStream(s) ==
    /\ ~Disabled(s)
    /\ Len(requests) < MaxRequests
    /\ requests' = Append(requests, [ state |-> s, pc |-> "fetch" ])
    /\ UNCHANGED << appMounted, robotsData, isDataLoading, polls, fleetBy, streamStatus >>
    /\ UNCHANGED viewVars

\* the fetch of request k settles: resolved (with any HTTP status) or rejected
ControlSettles(k, resolved) ==
    /\ requests[k].pc = "fetch"
    /\ requests' = [requests EXCEPT ![k].pc = IF resolved THEN "done" ELSE "rejected"]
    /\ streamStatus' = IF resolved
                       THEN (IF requests[k].state = "start" THEN "live" ELSE "offline")
                       ELSE streamStatus
    /\ UNCHANGED << appMounted, robotsData, isDataLoading, polls, fleetBy >>
    /\ UNCHANGED viewVars

-----------------------------------------------------------------------------
(* Specifications *)

Runs == 1..run

\* the range buttons Spec presses; the range only enters the request URL, so
\* '7d' behaves as '24h' does
RangeChoices == {"1h", "24h"}

Next ==
    \/ \E id \in Robots \cup {NoRobot} : ChangeSubject(id, MaxRuns)
    \/ \E r \in RangeChoices : \E fd \in FallbackDraws : ChangeRange(r, fd, MaxRuns)
    \/ Unmount
    \/ \E g \in Runs : \E d \in RandDraws : clock < ClockStart + MaxClock /\ Tick(g, d)
    \/ \E g \in Runs : \E res \in HistoryResponses : SeedSettles(g, res)

Spec == Init /\ [][Next]_vars

\* Long runs: one draw per tick, few responses, enough ticks to fill the window;
\* the subject and the range change only after MAX_DATA_POINTS tick periods.
LateChange == clock >= ClockStart + MAX_DATA_POINTS

NextLong ==
    \/ \E id \in Robots \cup {NoRobot} : LateChange /\ ChangeSubject(id, LongRuns)
    \/ \E r \in Ranges : \E fd \in FallbackDraws : LateChange /\ ChangeRange(r, fd, LongRuns)
    \/ \E g \in Runs : \E d \in LongDraws : clock < ClockStart + LongClock /\ Tick(g, d)
    \/ \E g \in Runs : \E res \in LongResponses : SeedSettles(g, res)

SpecLong == Init /\ [][NextLong]_vars

\* The view with its renders: sensor snapshots arrive, one draw per tick
ViewResponses == { Reject, ArrayOf(<< RecA >>) }

NextView ==
    \/ \E id \in Robots \cup {NoRobot} : ChangeSubject(id, MaxRuns)
    \/ \E r \in RangeChoices : \E fd \in FallbackDraws : ChangeRange(r, fd, MaxRuns)
    \/ \E s \in {NoSensors, ApiSensors} : PropsUpdate(s)
    \/ \E g \in Runs : \E d \in LongDraws : clock < ClockStart + MaxClock /\ Tick(g, d)
    \/ \E g \in Runs : \E res \in ViewResponses : SeedSettles(g, res)

SpecView == Init /\ [][NextView]_vars

\* Synthetic streaming only: no seed is ever installed, the view keeps its
\* subject and range, and the timer runs for SynthClock periods.
SynthResponses == { Reject, NotOk, ArrayOf(<< >>) }

NextSynth ==
    \/ \E g \in Runs : \E d \in LongDraws : clock < ClockStart + SynthClock /\ Tick(g, d)
    \/ \E g \in Runs : \E res \in SynthResponses : SeedSettles(g, res)

SpecSynth == Init /\ [][NextSynth]_vars

\* The timer keeps firing: the view keeps its subject and range, every tick
\* draws the smallest wear increment, and the timer is followed until the
\* window is full and the carried wear has reached its bound.
LiveDraws ==
    { [ torque |-> 999, temp |-> 0, speed |-> 500, vib |-> 999, wear |-> 0 ] }

RecE == HRec(Some(30), Some(45 * Scale), Some(305 * Scale), Some(2900 * Scale),
             Some(6 * (Scale \div 10)), Some(99 * Scale))

LiveResponses == { Reject, ArrayOf(<< RecE >>), ArrayOf(LongHistory(SEED_TAKE + 1)) }

WearBound == 95 * Scale

LiveTickOn ==
    \/ clock < ClockStart + LiveClock
    \/ Len(historyData) < MAX_DATA_POINTS
    \/ prevValues.current_tool_wear_pct # WearBound

LiveTick == \E g \in Runs : \E d \in LiveDraws : LiveTickOn /\ Tick(g, d)

NextLive ==
    \/ LiveTick
    \/ \E g \in Runs : \E res \in LiveResponses : SeedSettles(g, res)

\* The fleet poll of AppContent
NextApp ==
    \/ PollStart
    \/ \E k \in 1..Len(polls) : \E os \in PollOutcomes : PollSettles(k, os)
    \/ AppUnmount

SpecApp == Init /\ [][NextApp]_vars

\* The stream controls of the dashboard
NextDash ==
    \/ \E s \in {"start", "stop"} : ControlStream(s)
    \/ \E k \in 1..Len(requests) : \E resolved \in BOOLEAN : ControlSettles(k, resolved)

SpecDash == Init /\ [][NextDash]_vars

\* setInterval fires its callback again and again
SpecLive == Init /\ [][NextLive]_vars /\ WF_vars(LiveTick)

-----------------------------------------------------------------------------
(* Properties of the live window *)

Window == 1..Len(historyData)

\* the subject a sample was generated or seeded for
OwnerOf(p) == runSubject[p.run]

\* the current run began with a change of robot?.id alone
SubjectJustChanged ==
    /\ run > 1
    /\ runSubject[run] # runSubject[run - 1]
    /\ runRange[run] = runRange[run - 1]

\* the current run began with a change of timeRange
RangeJustChanged == run > 1 /\ runRange[run] # runRange[run - 1]

\* no tick of the current run has fired and its seed has not settled
FreshRun == tickCount[run] = 0 /\ pc[run] = "fetch"

\* C1: after the subject changes with the range unchanged, the window holds no
\* sample of another robot, and until the first tick or the seed of the new
\* subject the window is empty and CarryState has its defaults.
C1_SubjectChangeDiscards ==
    (mounted /\ robotId \in Robots) =>
        /\ \A i \in Window : OwnerOf(historyData[i]) \in Robots
                                => OwnerOf(historyData[i]) = robotId
        /\ (SubjectJustChanged /\ FreshRun)
               => (historyData = << >> /\ prevValues = Defaults)

\* C2: a seed result that settles for a superseded run (or after the view was
\* left) changes neither the window nor CarryState.
C2_StaleSeedDiscarded ==
    [][ \A g \in 1..Len(pc) :
          (pc[g] = "fetch" /\ pc'[g] # "fetch" /\ (g # run \/ ~mounted))
             => (historyData' = historyData /\ prevValues' = prevValues) ]_vars

C2_Witness ==
    \E g \in Runs : pc[g] = "stale" /\ g < run /\ pc[run] = "fetch"
                     /\ Len(historyData) > 0

\* C3: while the seed of the current run is pending, the window holds exactly
\* the k samples of this run's ticks, which started from the default
\* CarryState; right after a non-empty seed settles the window is exactly the
\* seeded samples and CarryState is the last seeded sample's values.
C3_SeedOverwritesTicks ==
    mounted =>
        /\ pc[run] = "fetch" =>
              /\ Len(historyData) = tickCount[run]
              /\ \A i \in Window : historyData[i].run = run /\ historyData[i].src = "tick"
              /\ tickCount[run] = 0 => prevValues = Defaults
        /\ (seedMark.kind = "records" /\ tickCount[run] = seedMark.ticks) =>
              /\ Len(historyData) = seedMark.n
              /\ \A i \in Window : historyData[i].run = run /\ historyData[i].src = "seed"
              /\ prevValues = CarryOf(historyData[Len(historyData)])

\* a step in which a tick callback ran
TickStep == clock' # clock /\ tickCount' # tickCount

\* C4: the window never holds more than MAX_DATA_POINTS samples, and a tick
\* on a full window drops the first sample and appends the new one last.
C4_WindowBounded ==
    /\ [](Len(historyData) <= MAX_DATA_POINTS)
    /\ [][ (Len(historyData) = MAX_DATA_POINTS /\ TickStep)
             => /\ Len(historyData') = MAX_DATA_POINTS
                /\ SubSeq(historyData', 1, MAX_DATA_POINTS - 1) = Tail(historyData)
                /\ historyData'[MAX_DATA_POINTS].src = "tick"
                /\ historyData'[MAX_DATA_POINTS].timestamp = clock' ]_vars

C4_Witness ==
    /\ Len(historyData) = MAX_DATA_POINTS
    /\ tickCount[run] > MAX_DATA_POINTS
    /\ historyData[1].timestamp = ClockStart + tickCount[run] - MAX_DATA_POINTS + 1

\* NaN compares false with everything
TimeLeq(a, b) == a # NaN /\ b # NaN /\ a <= b

\* C5: the samples of the window are ordered by non-decreasing timestamp.
C5_SortedByTimestamp ==
    \A i \in Window :
        i > 1 => TimeLeq(historyData[i - 1].timestamp, historyData[i].timestamp)

\* ticks of the current run since its seed request settled
TicksSinceSeed == tickCount[run] - seedMark.ticks

SeedSettled == mounted /\ seedMark.kind \in {"failure", "empty", "badrecords", "records"}

\* C6 as stated: once the seed has settled with N_seed samples (0 on failure
\* or an empty result), the length is min(N_seed + N, N_max) after N ticks.
C6_LengthFromSeed ==
    SeedSettled =>
        Len(historyData) = Min(seedMark.n + TicksSinceSeed, MAX_DATA_POINTS)

\* C6 amended: after a non-empty seed of N_seed samples the length is
\* min(N_seed + N, N_max); a failed or empty seed leaves the window at the
\* length L it had, and the length is min(L + N, N_max) after N more ticks.
C6_LengthFromSettle ==
    SeedSettled =>
        /\ seedMark.kind = "records" => seedMark.len = seedMark.n
        /\ Len(historyData) = Min(seedMark.len + TicksSinceSeed, MAX_DATA_POINTS)

C6_Witness ==
    /\ SeedSettled
    /\ seedMark.kind = "failure"
    /\ seedMark.len > 0
    /\ TicksSinceSeed > 0
    /\ Len(historyData) = MAX_DATA_POINTS

\* C7: wear-percentage never decreases from one sample of the window to the
\* next and never exceeds 95.
C7_WearMonotone ==
    \A i \in Window :
        /\ historyData[i].current_tool_wear_pct <= 95 * Scale
        /\ i > 1 => historyData[i - 1].current_tool_wear_pct
                        <= historyData[i].current_tool_wear_pct

InRanges(m) ==
    /\ m.Torque >= 25 * Scale /\ m.Torque <= 55 * Scale
    /\ m.Temperature >= 290 * Scale /\ m.Temperature <= 315 * Scale
    /\ m.Speed >= 2650 * Scale /\ m.Speed <= 2950 * Scale
    /\ m.Vibration >= Scale \div 4 /\ m.Vibration <= 85 * (Scale \div 100)

\* C8: once a tick has fired after the seed, every sample of the window and
\* CarryState are inside the metric ranges, whatever the seed installed.
C8_MetricsInRange ==
    (mounted /\ seedMark.kind = "records" /\ TicksSinceSeed > 0) =>
        /\ \A i \in Window : InRanges(historyData[i])
        /\ InRanges(prevValues)

\* the last run that began with a change of timeRange (1 if there is none)
RECURSIVE LastReset(_)
LastReset(g) ==
    IF g <= 1 THEN 1
    ELSE IF runRange[g] # runRange[g - 1] THEN g
    ELSE LastReset(g - 1)

\* C9: after a change of range the window is empty and CarryState has its
\* defaults until the new seed or the next tick, and no sample made before
\* the change is in the window again.
C9_ResetDiscards ==
    /\ (mounted /\ RangeJustChanged /\ FreshRun)
          => (historyData = << >> /\ prevValues = Defaults)
    /\ \A i \in Window : historyData[i].run >= LastReset(run)

C9_Witness ==
    /\ mounted /\ RangeJustChanged /\ FreshRun
    /\ tickCount[run - 1] > 0
    /\ pc[run - 1] = "done"

-----------------------------------------------------------------------------
(* Properties of the display *)

\* combinedData of the current render
CombinedData == CombinedOf(historyData, memo)

\* C11: the sequence handed to the charts is never empty: an empty window is
\* replaced by the fallback, also before the first tick and after a failed seed.
C11_DisplayNonEmpty == Len(CombinedData) > 0

C11_Witness ==
    /\ mounted
    /\ seedMark.kind = "failure"
    /\ historyData = << >>
    /\ Len(CombinedData) = FALLBACK_LEN

MetricsOf(seq) == [ i \in 1..Len(seq) |-> CarryOf(seq[i]) ]

\* C12: generating the fallback again from the same buffer state (empty window,
\* same CarryState) yields the same metric values.
C12_FallbackDeterministic ==
    [][ (historyData = << >> /\ historyData' = << >> /\ prevValues' = prevValues)
          => MetricsOf(CombinedData') = MetricsOf(CombinedData) ]_vars

\* C13: only the timer of the current run is active, and only its callback
\* advances a tick counter, appends a sample or changes CarryState.
C13_OneTimer ==
    /\ [](\A g \in Runs : interval[g] <=> (g = run /\ mounted /\ isMounted[g]))
    /\ [][ \A g \in 1..Len(tickCount) : tickCount'[g] # tickCount[g] => g = run ]_vars
    /\ [][ (clock' # clock /\ (historyData' # historyData \/ prevValues' # prevValues))
            => (tickCount'[run] = tickCount[run] + 1
                /\ historyData'[Len(historyData')].run = run) ]_vars

C13_Witness ==
    /\ mounted
    /\ run > 1
    /\ tickCount[run] > 0
    /\ tickCount[run - 1] > 0
    /\ historyData[Len(historyData)].run = run

\* C14: while no robot is found, no tick appends a sample or changes CarryState.
C14_NoTickWithoutSubject ==
    [][ (robotId = NoRobot /\ robotId' = NoRobot)
          => (historyData' = historyData /\ prevValues' = prevValues) ]_vars

\* C15: a render that reads the window for display (combinedData, liveSensors)
\* changes neither the window nor CarryState.
C15_ReadKeepsState ==
    [][ (sensors' # sensors /\ robotId' = robotId)
          => (historyData' = historyData /\ prevValues' = prevValues) ]_vars

C15_Witness ==
    /\ sensors # NoSensors
    /\ tickCount[run] = 0
    /\ historyData = << >>
    /\ Len(CombinedData) = FALLBACK_LEN
    /\ LiveSensorsOf(sensors, historyData).Torque = ApiSensors[1].Torque

-----------------------------------------------------------------------------
(* Properties of the seed *)

\* the seed of the current run was installed and no tick has run since
JustSeeded == mounted /\ seedMark.kind = "records" /\ tickCount[run] = seedMark.ticks

\* the records of the response that the seed takes
Taken == SliceLast(seedMark.items, SEED_TAKE)

FieldCarried(f, v, dflt) == IF f = Missing THEN v = dflt ELSE v = f[1]

\* C16: a seed keeps every record of the batch; a metric field present in a
\* record reaches the sample unchanged (0 included), a missing one takes its default.
C16_FieldsCarried ==
    JustSeeded =>
        /\ Len(historyData) = Len(Taken)
        /\ \A i \in 1..Len(Taken) :
              /\ i \in Window
              /\ FieldCarried(Taken[i].Torque, historyData[i].Torque, Defaults.Torque)
              /\ FieldCarried(Taken[i].Temperature, historyData[i].Temperature,
                              Defaults.Temperature)
              /\ FieldCarried(Taken[i].Speed, historyData[i].Speed, Defaults.Speed)
              /\ FieldCarried(Taken[i].Vibration, historyData[i].Vibration,
                              Defaults.Vibration)
              /\ FieldCarried(Taken[i].tool_wear_pct, historyData[i].current_tool_wear_pct,
                              Defaults.current_tool_wear_pct)

\* C17: right after a seed whose records all carry a time, CarryState holds the
\* metric values of the seeded sample with the greatest timestamp.
C17_CarryFromLatest ==
    (JustSeeded /\ \A i \in Window : historyData[i].timestamp # NaN) =>
        \E j \in Window :
            /\ \A i \in Window : historyData[i].timestamp <= historyData[j].timestamp
            /\ prevValues = CarryOf(historyData[j])

\* C18: right after a seed from a response of length L the window holds the
\* last min(L, 50) records of the response, normalized, in response order,
\* and 50 is at most the capacity of the window.
C18_SeedTakesLast ==
    /\ SEED_TAKE <= MAX_DATA_POINTS
    /\ JustSeeded =>
          LET L == Len(seedMark.items)
              n == Min(L, SEED_TAKE)
          IN  /\ Len(historyData) = n
              /\ \A i \in 1..n : historyData[i] = Normalize(seedMark.items[L - n + i], run)

C18_Witness ==
    /\ JustSeeded
    /\ Len(seedMark.items) = SEED_TAKE + 1
    /\ Len(historyData) = SEED_TAKE
    /\ historyData[1].timestamp = 2
    /\ historyData[SEED_TAKE].timestamp = SEED_TAKE + 1

\* C19: with no seed installed, after N > 100 ticks the window holds the samples
\* of ticks N - 99 .. N in generation order; after 150 ticks its first sample is
\* the one generated by tick 51.
C19_KeepsLastGenerated ==
    (seedMark.kind # "records" /\ tickCount[run] > MAX_DATA_POINTS) =>
        /\ Len(historyData) = MAX_DATA_POINTS
        /\ \A i \in Window :
              /\ historyData[i].src = "tick"
              /\ historyData[i].timestamp =
                    ClockStart + tickCount[run] - MAX_DATA_POINTS + i

C19_Witness ==
    /\ seedMark.kind # "records"
    /\ tickCount[run] = 150
    /\ Len(historyData) = 100
    /\ historyData[1].timestamp = ClockStart + 51
    /\ historyData[100].timestamp = ClockStart + 150

\* the largest change of Torque in one tick: (rand - 0.5) * 6 + oscillation * 3
TorqueStep == 45 * (Scale \div 10)
\* toFixed(1) moves a value by at most 0.05
TorqueRound == 5 * (Scale \div 100)

\* C20: the first tick after a seed keeps the seeded samples, appends one sample
\* after them, and that sample's Torque is the last seeded Torque plus a bounded
\* perturbation, clamped to [25, 55].
C20_FirstTickAfterSeed ==
    [][ (JustSeeded /\ TickStep) =>
          LET n == Len(historyData)
              last == historyData[n].Torque
              new == historyData'[Len(historyData')]
          IN  /\ n = Len(Taken)
              /\ Len(historyData') = n + 1
              /\ SubSeq(historyData', 1, n) = historyData
              /\ new.src = "tick"
              /\ new.Torque >= Clamp(25 * Scale, 55 * Scale, last - TorqueStep) - TorqueRound
              /\ new.Torque <= Clamp(25 * Scale, 55 * Scale, last + TorqueStep) + TorqueRound
              /\ new.Torque >= 25 * Scale
              /\ new.Torque <= 55 * Scale ]_vars

C20_Witness ==
    /\ mounted
    /\ seedMark.items = << RecA >>
    /\ TicksSinceSeed = 1
    /\ Len(historyData) = 2
    /\ historyData[1].timestamp = 10
    /\ historyData[1].Torque = 42 * Scale
    /\ historyData[2].src = "tick"
    /\ historyData[2].Torque # 42 * Scale
    /\ historyData[2].Torque >= 42 * Scale - TorqueStep - TorqueRound
    /\ historyData[2].Torque <= 42 * Scale + TorqueStep + TorqueRound

-----------------------------------------------------------------------------
(* Properties of ticks and seeds, continued *)

LastSample(h) == h[Len(h)]

\* C22: after every tick CarryState equals the metric values of the sample the
\* tick appended.
C22_CarryIsLastSample ==
    [][ TickStep => prevValues' = CarryOf(LastSample(historyData')) ]_vars

\* a seed request settles in this step
SeedStep == \E g \in Runs : pc[g] = "fetch" /\ pc'[g] # "fetch"

\* C23: every run of the streaming effect issues one seed fetch if it has a
\* subject and none otherwise, a run starts exactly when the subject or the range
\* changes, a fetch settles once, and a seed enters the window only when the
\* current run's fetch settles.
C23_OneFetchPerRun ==
    /\ [](Len(pc) = run /\ \A g \in Runs : (pc[g] = "returned") <=> (runSubject[g] = NoRobot))
    /\ [][ (run' # run) <=> (robotId' # robotId \/ timeRange' # timeRange) ]_vars
    /\ [][ run' # run => run' = run + 1 ]_vars
    /\ [][ \A g \in Runs : pc'[g] # pc[g] =>
              (pc[g] = "fetch" /\ pc'[g] \in {"done", "stale"}) ]_vars
    /\ [][ (run' = run /\ historyData' # historyData /\ Len(historyData') > 0
              /\ LastSample(historyData').src = "seed")
            => (pc[run] = "fetch" /\ pc'[run] = "done") ]_vars

C23_Witness ==
    /\ run = 3
    /\ pc[1] = "stale"
    /\ pc[2] = "done"
    /\ pc[3] = "returned"
    /\ Len(historyData) > 0
    /\ historyData[1].src = "seed"

\* C24: a settling seed request either installs the normalized seed and sets
\* CarryState from its last sample, or leaves both the window and CarryState
\* as they were.
C24_SeedAtomic ==
    [][ SeedStep =>
          IF pc[run] = "fetch" /\ pc'[run] = "done" /\ seedMark'.kind = "records"
          THEN /\ historyData' = [ i \in 1..Len(Taken') |-> Normalize(Taken'[i], run) ]
               /\ prevValues' = CarryOf(LastSample(historyData'))
          ELSE historyData' = historyData /\ prevValues' = prevValues ]_vars

C24_Witness ==
    /\ JustSeeded
    /\ seedMark.ticks > 0
    /\ Len(historyData) = 2
    /\ prevValues = CarryOf(historyData[2])
    /\ prevValues # CarryOf(historyData[1])

\* C25: no fallback sample is ever in the window; the first tick on an empty
\* window leaves exactly the tick's sample, and the displayed sequence goes from
\* the 20 fallback samples to that sample.
C25_FallbackStaysOut ==
    /\ [](\A i \in Window : historyData[i].src # "fallback")
    /\ [][ (TickStep /\ historyData = << >>) =>
              /\ Len(CombinedData) = FALLBACK_LEN
              /\ \A i \in 1..FALLBACK_LEN : CombinedData[i].src = "fallback"
              /\ Len(historyData') = 1
              /\ historyData'[1].src = "tick"
              /\ CombinedData' = historyData' ]_vars

C25_Witness ==
    /\ mounted
    /\ seedMark.kind \in {"none", "failure"}
    /\ tickCount[run] = 1
    /\ Len(historyData) = 1
    /\ historyData[1].src = "tick"
    /\ CombinedData = historyData

-----------------------------------------------------------------------------
(* Liveness *)

\* C26: while the timer keeps firing and neither subject nor range changes,
\* the window eventually has length 100 and keeps it forever.
C26_EventuallyFull == <>[](Len(historyData) = MAX_DATA_POINTS)

C26_Witness ==
    /\ Len(historyData) = MAX_DATA_POINTS
    /\ seedMark.kind = "records"
    /\ seedMark.ticks >= MAX_DATA_POINTS
    /\ seedMark.len < MAX_DATA_POINTS
    /\ historyData[1].src = "seed"

WearStep == 2 * (Scale \div 10)

\* C27: every tick raises the carried wear by at least 0.2 or leaves it at 95,
\* and while the timer keeps firing the carried wear eventually is 95 and stays 95.
C27_WearReachesBound ==
    /\ [][ TickStep =>
              \/ prevValues'.current_tool_wear_pct = WearBound
              \/ prevValues'.current_tool_wear_pct
                    >= prevValues.current_tool_wear_pct + WearStep ]_vars
    /\ <>[](prevValues.current_tool_wear_pct = WearBound)

C27_Witness ==
    /\ prevValues.current_tool_wear_pct = WearBound
    /\ seedMark.kind \in {"none", "failure"}
    /\ tickCount[run] > MAX_DATA_POINTS
    /\ historyData[MAX_DATA_POINTS].current_tool_wear_pct = WearBound
    /\ historyData[1].current_tool_wear_pct < WearBound

-----------------------------------------------------------------------------
(* Properties of the fleet poll and of the stream controls *)

\* C28: the committed fleet data has one entry per id of MACHINE_IDS, in that
\* order, and the entry of a machine whose request failed has status "unknown"
\* and risk 0.
C28_OneEntryPerMachine ==
    fleetBy > 0 =>
        /\ Len(robotsData) = Len(MACHINE_IDS)
        /\ \A i \in Machines :
              /\ robotsData[i].id = MACHINE_IDS[i]
              /\ robotsData[i].from \in PredFailures =>
                    (robotsData[i].status = "unknown" /\ robotsData[i].risk = 0)

\* C29: the committed fleet data never goes back to an earlier poll, and
\* nothing is committed and the loading flag is not cleared after the unmount.
C29_FleetNeverGoesBack ==
    /\ [][ fleetBy' >= fleetBy ]_vars
    /\ [][ ~appMounted => (robotsData' = robotsData /\ isDataLoading' = isDataLoading) ]_vars

InFlight(s) == { k \in 1..Len(requests) : requests[k].pc = "fetch" /\ requests[k].state = s }

\* C30: the stream status changes only when a request completes, to "live"
\* after a start and to "offline" after a stop; a rejected request leaves it;
\* at most one start and at most one stop request are in flight.
C30_StreamControl ==
    /\ [][ streamStatus' # streamStatus =>
              \E k \in 1..Len(requests) :
                  /\ requests[k].pc = "fetch"
                  /\ requests'[k].pc = "done"
                  /\ streamStatus' = IF requests[k].state = "start" THEN "live" ELSE "offline" ]_vars
    /\ [][ (\E k \in 1..Len(requests) : requests[k].pc = "fetch" /\ requests'[k].pc = "rejected")
              => streamStatus' = streamStatus ]_vars
    /\ [](Cardinality(InFlight("start")) <= 1 /\ Cardinality(InFlight("stop")) <= 1)

====
